---- MODULE Spec2Model ----
(***************************************************************************)
(* Seat reservation engine of the Dreamline bus booking system:            *)
(* the cache-based seat locks (api_lock_seat / api_unlock_seat), the       *)
(* booking commit (api_create_booking) and the cancellations               *)
(* (cancel_booking, cancel_trip) of website_application/views.py.          *)
(*                                                                         *)
(* Every request handler runs in its own thread.  The handlers use no      *)
(* transaction.atomic and no select_for_update, so each cache operation    *)
(* and each SQL statement is one atomic step, and the steps of different   *)
(* requests interleave freely.  One action of the model is one such step   *)
(* together with the local computation that follows it.                    *)
(***************************************************************************)
EXTENDS Integers, Sequences, FiniteSets, TLC

\* ---------------------------------------------------------------- bounds
NumSeats == 2
MaxReq == 2
MaxBookings == 2
MaxNow == 120
MaxClientRequests == 2
MaxAdminRequests == 1

\* ------------------------------------------------------------- constants
LOCK_TTL == 120
\* SecurityMonitoringMiddleware.RATE_LIMIT_REQUESTS and RATE_LIMIT_WINDOW
RATE_LIMIT_REQUESTS == 100
RATE_LIMIT_WINDOW == 60
\* the clock advances in steps of half a lock lifetime
TickLen == LOCK_TTL \div 2

None == "None"
Clients == {"A", "B"}
Admins == {"adm"}
\* the staff users who can POST cancel_booking at the same time
Staff == Admins \cup {"adm2"}
Procs == Clients \cup Staff
Seats == 1..NumSeats
TripId == 1

\* the Trip rows that exist: the trip of the seats and another trip; every
\* Seat row of the model has trip = TripId
TripIds == {TripId, TripId + 1}
SeatTrip == [s \in Seats |-> TripId]

\* Seat.seat_class of the seats of the trip, and the trip's price table
seat_class == [s \in Seats |-> IF s = 1 THEN "vip" ELSE "normal"]
base_fare == [vip |-> 1500, business |-> 1200, normal |-> 1000]

\* RouteStop ids that exist; a request names a (boarding, dropping) pair
RouteStopIds == {1, 2}
PointChoices == {<<1, 1>>, <<1, 9>>}

\* Trip.route of the trip and RouteStop.route of each stop: stop 2 is a stop
\* of another route
TripRoute == "route1"
RouteOfStop == [id \in RouteStopIds |-> IF id = 1 THEN "route1" ELSE "route2"]

\* (boarding, dropping) pairs that also name the stop of the other route
PointChoicesAnyRoute == PointChoices \cup {<<1, 2>>}

VARIABLES
    is_available,   \* Seat.is_available per seat
    cache,          \* the cache entries seat_lock_<id>: value and expiry
    now,            \* the clock the cache compares expiries with
    bookings,       \* the Booking rows, indexed by primary key
    seat_bookings,  \* the SeatBooking rows
    payments,       \* the Payment rows
    trip_status,    \* Trip.status
    trip_fares,     \* Trip.base_fare_vip, base_fare_business, base_fare_normal
    session_key,    \* whether the client's browser has a session
    pc,             \* position of each request thread
    local,          \* local variables of each request thread
    response,       \* the last response each thread returned
    nreq,           \* number of requests each thread has taken so far
    rate_limit      \* the cache entry rate_limit:<ip> of the one client IP:
                    \* value and expiry; admitted is history, the number of
                    \* requests admitted since the entry last expired

vars == <<is_available, cache, now, bookings, seat_bookings, payments,
          trip_status, trip_fares, session_key, pc, local, response, nreq,
          rate_limit>>

durable == <<is_available, bookings, seat_bookings, payments, trip_status, trip_fares>>

\* ------------------------------------------------------- pure helpers
NoEntry == [value |-> None, expires |-> 0]

\* no entry under the key rate_limit:<ip>: an entry that has expired
NoCounter == [value |-> 0, expires |-> 0, admitted |-> 0]

\* a cache.get that never checks the expiry of an entry
CacheGetStale(c, s, t) == c[s].value

\* a cache.get for which an entry is still there at the instant it expires
CacheGetInclusive(c, s, t) ==
    IF c[s].value # None /\ c[s].expires >= t THEN c[s].value ELSE None

\* cache.get(key): an entry whose expiry has passed counts as absent
CacheGet(c, s, t) ==
    IF c[s].value # None /\ c[s].expires > t THEN c[s].value ELSE None

\* cache.set(key, value, timeout)
CacheSet(c, s, v, timeout, t) ==
    [c EXCEPT ![s] = [value |-> v, expires |-> t + timeout]]

\* a delete that empties the whole cache
CacheDeleteAll(c, s) == [x \in Seats |-> NoEntry]

\* cache.delete(key)
CacheDelete(c, s) == [c EXCEPT ![s] = NoEntry]

\* Seat.get_fare on a seat whose trip row holds the fares f
FareOf(f, s) ==
    IF seat_class[s] = "vip" THEN f.vip
    ELSE IF seat_class[s] = "business" THEN f.business
    ELSE f.normal

\* Seat.get_fare on a seat that fetches its trip now
get_fare(s) == FareOf(trip_fares, s)

RECURSIVE SumFares(_)
SumFares(q) == IF q = <<>> THEN 0 ELSE get_fare(Head(q)) + SumFares(Tail(q))

Range(q) == {q[k] : k \in 1..Len(q)}

\* Seat.objects.filter(id__in=ids, is_available=True), in Meta.ordering
RECURSIVE SortedSeq(_)
SortedSeq(S) ==
    IF S = {} THEN <<>>
    ELSE LET m == CHOOSE x \in S : \A y \in S : x <= y
         IN <<m>> \o SortedSeq(S \ {m})

FilterAvailable(avail, ids) == {s \in Range(ids) \cap Seats : avail[s]}

\* requests: lists of seat ids of length 1..MaxReq (repeats allowed)
SeatLists == UNION {[1..n -> Seats] : n \in 1..MaxReq}

\* request.session.session_key
SessionOf(p) == IF session_key[p] THEN p ELSE None

L0 == [op |-> "none", seat |-> 0, sid |-> None, req |-> <<>>, pts |-> <<0, 0>>,
       i |-> 0, locked_seats |-> <<>>, unlocked_seats |-> <<>>,
       seats |-> <<>>, total_amount |-> 0, booking |-> 0,
       sold_at_count |-> {}, second |-> FALSE,
       rows |-> <<>>, seat_data |-> <<>>, fares |-> <<>>, trip |-> TripId,
       requests |-> 0]

R0 == [kind |-> "none", req |-> <<>>, seats |-> <<>>, booking |-> 0,
       total |-> 0, payment |-> 0, seat_data |-> <<>>]

Resp(kind) == [R0 EXCEPT !.kind = kind]

Init ==
    /\ is_available = [s \in Seats |-> TRUE]
    /\ cache = [s \in Seats |-> NoEntry]
    /\ now = 0
    /\ bookings = <<>>
    /\ seat_bookings = {}
    /\ payments = <<>>
    /\ trip_status = "scheduled"
    /\ trip_fares = base_fare
    /\ session_key = [c \in Clients |-> FALSE]
    /\ pc = [p \in Procs |-> "idle"]
    /\ local = [p \in Procs |-> L0]
    /\ response = [p \in Procs |-> R0]
    /\ nreq = [p \in Procs |-> 0]
    /\ rate_limit = NoCounter

RequestLimit(p) == IF p \in Clients THEN MaxClientRequests ELSE MaxAdminRequests

\* a thread that is not serving a request takes the next one
Ready(p) == pc[p] \in {"idle", "done"} /\ nreq[p] < RequestLimit(p)

\* the thread takes a request: its locals are l, nothing is returned yet
Enter(p, at, l) ==
    /\ nreq' = [nreq EXCEPT ![p] = nreq[p] + 1]
    /\ pc' = [pc EXCEPT ![p] = at]
    /\ local' = [local EXCEPT ![p] = l]
    /\ response' = [response EXCEPT ![p] = R0]
    /\ UNCHANGED rate_limit

\* the thread goes on to the step at, with locals l
Goto(p, at, l) ==
    /\ pc' = [pc EXCEPT ![p] = at]
    /\ local' = [local EXCEPT ![p] = l]
    /\ UNCHANGED <<response, nreq, rate_limit>>

\* the handler returns r: the request's locals are gone
Return(p, r) ==
    /\ pc' = [pc EXCEPT ![p] = "done"]
    /\ local' = [local EXCEPT ![p] = L0]
    /\ response' = [response EXCEPT ![p] = r]
    /\ UNCHANGED <<nreq, rate_limit>>

\* a handler that returns r in the step that takes the request
EnterReturn(p, r) ==
    /\ nreq' = [nreq EXCEPT ![p] = nreq[p] + 1]
    /\ pc' = [pc EXCEPT ![p] = "done"]
    /\ local' = [local EXCEPT ![p] = L0]
    /\ response' = [response EXCEPT ![p] = r]
    /\ UNCHANGED rate_limit

\* ------------------------------------------------------------- the clock
Tick ==
    /\ now + TickLen <= MaxNow
    /\ now' = now + TickLen
    /\ UNCHANGED <<is_available, cache, bookings, seat_bookings, payments,
                   trip_status, trip_fares,
                   session_key, pc, local, response, nreq, rate_limit>>

\* ------------------------------------------------------- api_get_seats
\* an entry of seat_data that takes any stored lock for a lock
SeatDataStored(avail, c, t, s) ==
    LET is_locked == c[s].value # None
    IN [is_locked |-> is_locked, is_available |-> avail[s] /\ ~is_locked]

\* the entry of seat_data for seat s: is_locked and is_available
SeatData(avail, c, t, s) ==
    LET is_locked == CacheGet(c, s, t) # None
    IN [is_locked |-> is_locked, is_available |-> avail[s] /\ ~is_locked]

\* seats = trip.seats.all().order_by(...): the query runs when the loop
\* starts and reads every Seat row of the trip
GetSeatsQuery(p) ==
    /\ Ready(p)
    /\ Enter(p, "seats_entry",
             [L0 EXCEPT !.op = "get_seats", !.rows = is_available, !.i = 1])
    /\ UNCHANGED <<is_available, cache, now, bookings, seat_bookings, payments,
                   trip_status, trip_fares, session_key>>

\* one iteration of the loop: cache.get(lock_key) and seat_data.append;
\* after the last seat the JsonResponse
GetSeatsEntry(p) ==
    /\ pc[p] = "seats_entry"
    /\ LET s == local[p].i
           d == Append(local[p].seat_data, SeatData(local[p].rows, cache, now, s))
       IN IF s < NumSeats
          THEN Goto(p, "seats_entry", [local[p] EXCEPT !.i = s + 1, !.seat_data = d])
          ELSE Return(p, [Resp("SeatData") EXCEPT !.seat_data = d])
    /\ UNCHANGED <<is_available, cache, now, bookings, seat_bookings, payments,
                   trip_status, trip_fares, session_key>>

\* ------------------------------------------------------ api_lock_seat
\* api_lock_seat without the test of seat.is_available
LockSeatBeginNoSoldCheck(p, s) ==
    /\ Ready(p)
    /\ session_key' = [session_key EXCEPT ![p] = TRUE]
    /\ Enter(p, "lock_get", [L0 EXCEPT !.op = "lock", !.seat = s, !.sid = p])
    /\ UNCHANGED <<is_available, cache, now, bookings, seat_bookings, payments,
                   trip_status, trip_fares>>

\* session creation and the read of the Seat row
LockSeatBegin(p, s) ==
    /\ Ready(p)
    /\ session_key' = [session_key EXCEPT ![p] = TRUE]
    /\ IF ~is_available[s]
       THEN EnterReturn(p, [Resp("AlreadySold") EXCEPT !.seats = <<s>>])
       ELSE Enter(p, "lock_get", [L0 EXCEPT !.op = "lock", !.seat = s, !.sid = p])
    /\ UNCHANGED <<is_available, cache, now, bookings, seat_bookings, payments,
                   trip_status, trip_fares>>

\* the test on existing_lock with the comparison of the owner inverted
LockSeatGetSameOwner(p) ==
    /\ pc[p] = "lock_get"
    /\ LET existing_lock == CacheGet(cache, local[p].seat, now)
       IN IF existing_lock # None /\ existing_lock = local[p].sid
          THEN Return(p, [Resp("HeldByOther") EXCEPT !.seats = <<local[p].seat>>])
          ELSE Goto(p, "lock_set", local[p])
    /\ UNCHANGED <<is_available, cache, now, bookings, seat_bookings, payments,
                   trip_status, trip_fares, session_key>>

\* a hold that waits at its read of the lock until no other session holds it
LockSeatGetBlocking(p) ==
    /\ pc[p] = "lock_get"
    /\ LET existing_lock == CacheGet(cache, local[p].seat, now)
       IN /\ ~(existing_lock # None /\ existing_lock # local[p].sid)
          /\ Goto(p, "lock_set", local[p])
    /\ UNCHANGED <<is_available, cache, now, bookings, seat_bookings, payments,
                   trip_status, trip_fares, session_key>>

\* existing_lock = cache.get(lock_key) and the test on it
LockSeatGet(p) ==
    /\ pc[p] = "lock_get"
    /\ LET existing_lock == CacheGet(cache, local[p].seat, now)
       IN IF existing_lock # None /\ existing_lock # local[p].sid
          THEN Return(p, [Resp("HeldByOther") EXCEPT !.seats = <<local[p].seat>>])
          ELSE Goto(p, "lock_set", local[p])
    /\ UNCHANGED <<is_available, cache, now, bookings, seat_bookings, payments,
                   trip_status, trip_fares, session_key>>

\* cache.set(lock_key, session_id, 120)
LockSeatSet(p) ==
    /\ pc[p] = "lock_set"
    /\ cache' = CacheSet(cache, local[p].seat, local[p].sid, LOCK_TTL, now)
    /\ Return(p, [Resp("LockOk") EXCEPT !.seats = <<local[p].seat>>])
    /\ UNCHANGED <<is_available, now, bookings, seat_bookings, payments,
                   trip_status, trip_fares, session_key>>

\* ---------------------------------------------------- api_unlock_seat
\* existing_lock = cache.get(lock_key) and the comparison with session_key
UnlockSeatGet(p, s) ==
    /\ Ready(p)
    /\ IF CacheGet(cache, s, now) = SessionOf(p)
       THEN Enter(p, "unlock_delete",
                  [L0 EXCEPT !.op = "unlock", !.seat = s, !.sid = SessionOf(p)])
       ELSE EnterReturn(p, [Resp("NotLockedBySession") EXCEPT !.seats = <<s>>])
    /\ UNCHANGED <<is_available, cache, now, bookings, seat_bookings, payments,
                   trip_status, trip_fares, session_key>>

\* cache.delete(lock_key)
UnlockSeatDelete(p) ==
    /\ pc[p] = "unlock_delete"
    /\ cache' = CacheDelete(cache, local[p].seat)
    /\ Return(p, [Resp("UnlockOk") EXCEPT !.seats = <<local[p].seat>>])
    /\ UNCHANGED <<is_available, now, bookings, seat_bookings, payments,
                   trip_status, trip_fares, session_key>>

\* ------------------------------------------------- api_create_booking
CommitPcs == {"commit_check", "commit_count", "commit_values", "commit_eval",
              "commit_booking", "commit_sb", "commit_save", "commit_unlock",
              "commit_payment"}

InFlightCommits == Cardinality({q \in Clients : pc[q] \in CommitPcs})

\* parsing and validation of the request, session creation
CreateBookingBegin(p, req, pts) ==
    /\ Ready(p)
    /\ Len(bookings) + InFlightCommits < MaxBookings
    /\ session_key' = [session_key EXCEPT ![p] = TRUE]
    /\ Enter(p, "commit_check",
             [L0 EXCEPT !.op = "commit", !.sid = p, !.req = req, !.pts = pts,
                        !.i = 1])
    /\ UNCHANGED <<is_available, cache, now, bookings, seat_bookings, payments,
                   trip_status, trip_fares>>

\* the same, for a request body that carries any existing trip_id:
\* trip = get_object_or_404(Trip, id=trip_id)
CreateBookingBeginTrip(p, trip_id, req, pts) ==
    /\ Ready(p)
    /\ Len(bookings) + InFlightCommits < MaxBookings
    /\ trip_id \in TripIds
    /\ session_key' = [session_key EXCEPT ![p] = TRUE]
    /\ Enter(p, "commit_check",
             [L0 EXCEPT !.op = "commit", !.sid = p, !.req = req, !.pts = pts,
                        !.i = 1, !.trip = trip_id])
    /\ UNCHANGED <<is_available, cache, now, bookings, seat_bookings, payments,
                   trip_status, trip_fares>>

\* a lock check that fills the two lists but never rejects
CreateBookingCheckLockNoReject(p) ==
    /\ pc[p] = "commit_check"
    /\ LET l == local[p]
           seat_id == l.req[l.i]
           locked_by == CacheGet(cache, seat_id, now)
           locked == IF locked_by = l.sid THEN Append(l.locked_seats, seat_id)
                     ELSE l.locked_seats
           unlocked == IF locked_by = l.sid THEN l.unlocked_seats
                       ELSE Append(l.unlocked_seats, seat_id)
           l2 == [l EXCEPT !.locked_seats = locked, !.unlocked_seats = unlocked,
                           !.i = l.i + 1]
       IN IF l.i < Len(l.req) THEN Goto(p, "commit_check", l2)
          ELSE Goto(p, "commit_count", l2)
    /\ UNCHANGED <<is_available, cache, now, bookings, seat_bookings, payments,
                   trip_status, trip_fares, session_key>>

\* a lock check that, when it rejects, also deletes the locks of the
\* requested seats
CreateBookingCheckLockRelease(p) ==
    /\ pc[p] = "commit_check"
    /\ LET l == local[p]
           seat_id == l.req[l.i]
           locked_by == CacheGet(cache, seat_id, now)
           locked == IF locked_by = l.sid THEN Append(l.locked_seats, seat_id)
                     ELSE l.locked_seats
           unlocked == IF locked_by = l.sid THEN l.unlocked_seats
                       ELSE Append(l.unlocked_seats, seat_id)
           l2 == [l EXCEPT !.locked_seats = locked, !.unlocked_seats = unlocked,
                           !.i = l.i + 1]
       IN IF l.i < Len(l.req) THEN Goto(p, "commit_check", l2) /\ UNCHANGED cache
          ELSE IF unlocked # <<>>
          THEN /\ Return(p, [Resp("LockExpiredOrStolen") EXCEPT
                                !.req = l.req, !.seats = unlocked])
               /\ cache' = [s \in Seats |->
                              IF s \in Range(l.req) THEN NoEntry ELSE cache[s]]
          ELSE Goto(p, "commit_count", l2) /\ UNCHANGED cache
    /\ UNCHANGED <<is_available, now, bookings, seat_bookings, payments,
                   trip_status, trip_fares, session_key>>

\* one iteration of the lock check loop: locked_by = cache.get(lock_key);
\* after the last iteration, the test on unlocked_seats
CreateBookingCheckLock(p) ==
    /\ pc[p] = "commit_check"
    /\ LET l == local[p]
           seat_id == l.req[l.i]
           locked_by == CacheGet(cache, seat_id, now)
           locked == IF locked_by = l.sid THEN Append(l.locked_seats, seat_id)
                     ELSE l.locked_seats
           unlocked == IF locked_by = l.sid THEN l.unlocked_seats
                       ELSE Append(l.unlocked_seats, seat_id)
           l2 == [l EXCEPT !.locked_seats = locked, !.unlocked_seats = unlocked,
                           !.i = l.i + 1]
       IN IF l.i < Len(l.req) THEN Goto(p, "commit_check", l2)
          ELSE IF unlocked # <<>>
          THEN Return(p, [Resp("LockExpiredOrStolen") EXCEPT
                             !.req = l.req, !.seats = unlocked])
          ELSE Goto(p, "commit_count", l2)
    /\ UNCHANGED <<is_available, cache, now, bookings, seat_bookings, payments,
                   trip_status, trip_fares, session_key>>

\* seats.count() != len(seat_ids), then the lookup of the two RouteStops
\* (sold_at_count is history: the requested seats that are sold at this read)
CreateBookingCount(p) ==
    /\ pc[p] = "commit_count"
    /\ LET l == local[p]
           count == Cardinality(FilterAvailable(is_available, l.req))
           l2 == [l EXCEPT !.sold_at_count =
                              {s \in Range(l.req) : ~is_available[s]}]
       IN IF count # Len(l.req) THEN Goto(p, "commit_values", l2)
          ELSE IF ~(l.pts[1] \in RouteStopIds /\ l.pts[2] \in RouteStopIds)
          THEN Return(p, [Resp("InvalidBoardingPoint") EXCEPT !.req = l.req])
          ELSE Goto(p, "commit_eval", l2)
    /\ UNCHANGED <<is_available, cache, now, bookings, seat_bookings, payments,
                   trip_status, trip_fares, session_key>>

\* unavailable = set(seat_ids) - set(seats.values_list('id', flat=True))
CreateBookingValuesList(p) ==
    /\ pc[p] = "commit_values"
    /\ LET l == local[p]
           unavailable == Range(l.req) \ FilterAvailable(is_available, l.req)
       IN Return(p, [Resp("SeatNoLongerAvailable") EXCEPT
                        !.req = l.req, !.seats = SortedSeq(unavailable)])
    /\ UNCHANGED <<is_available, cache, now, bookings, seat_bookings, payments,
                   trip_status, trip_fares, session_key>>

\* total_amount = sum(seat.get_fare() for seat in seats): the queryset is
\* evaluated here and its rows are reused by the later loop; each row
\* fetches its trip here and keeps it, so the later get_fare calls see the
\* fares read now
CreateBookingEvaluate(p) ==
    /\ pc[p] = "commit_eval"
    /\ LET seats == SortedSeq(FilterAvailable(is_available, local[p].req))
       IN Goto(p, "commit_booking",
               [local[p] EXCEPT !.seats = seats, !.fares = trip_fares,
                                !.total_amount = SumFares(seats)])
    /\ UNCHANGED <<is_available, cache, now, bookings, seat_bookings, payments,
                   trip_status, trip_fares, session_key>>

\* a Booking.objects.create after which the handler creates the Payment
\* straight away, before the loop over the seats
CreateBookingInsertThenPay(p) ==
    /\ pc[p] = "commit_booking"
    /\ bookings' = Append(bookings, [trip |-> local[p].trip, status |-> "pending",
                                     total_amount |-> local[p].total_amount])
    /\ Goto(p, "commit_payment",
            [local[p] EXCEPT !.booking = Len(bookings) + 1, !.i = 1])
    /\ UNCHANGED <<is_available, cache, now, seat_bookings, payments,
                   trip_status, trip_fares, session_key>>

\* Booking.objects.create(..., total_amount=total_amount, status='pending')
CreateBookingInsert(p) ==
    /\ pc[p] = "commit_booking"
    /\ bookings' = Append(bookings, [trip |-> local[p].trip, status |-> "pending",
                                     total_amount |-> local[p].total_amount])
    /\ Goto(p, IF local[p].seats = <<>> THEN "commit_payment" ELSE "commit_sb",
            [local[p] EXCEPT !.booking = Len(bookings) + 1, !.i = 1])
    /\ UNCHANGED <<is_available, cache, now, seat_bookings, payments,
                   trip_status, trip_fares, session_key>>

\* SeatBooking.objects.create(booking=booking, seat=seat, fare=seat.get_fare())
CreateBookingSeatBooking(p) ==
    /\ pc[p] = "commit_sb"
    /\ LET seat == local[p].seats[local[p].i]
       IN seat_bookings' = seat_bookings \cup
             {[booking |-> local[p].booking, seat |-> seat,
               fare |-> FareOf(local[p].fares, seat)]}
    /\ Goto(p, "commit_save", local[p])
    /\ UNCHANGED <<is_available, cache, now, bookings, payments,
                   trip_status, trip_fares, session_key>>

\* seat.is_available = False; seat.save()
CreateBookingSaveSeat(p) ==
    /\ pc[p] = "commit_save"
    /\ is_available' = [is_available EXCEPT ![local[p].seats[local[p].i]] = FALSE]
    /\ Goto(p, "commit_unlock", local[p])
    /\ UNCHANGED <<cache, now, bookings, seat_bookings, payments,
                   trip_status, trip_fares, session_key>>

\* cache.delete(lock_key), end of one iteration of the loop over seats
CreateBookingDeleteLock(p) ==
    /\ pc[p] = "commit_unlock"
    /\ cache' = CacheDelete(cache, local[p].seats[local[p].i])
    /\ Goto(p, IF local[p].i < Len(local[p].seats) THEN "commit_sb"
               ELSE "commit_payment",
            [local[p] EXCEPT !.i = local[p].i + 1])
    /\ UNCHANGED <<is_available, now, bookings, seat_bookings, payments,
                   trip_status, trip_fares, session_key>>

\* Payment.objects.create(..., status='initiated') and the success response
CreateBookingPayment(p) ==
    /\ pc[p] = "commit_payment"
    /\ payments' = Append(payments, [booking |-> local[p].booking,
                                     amount |-> local[p].total_amount,
                                     status |-> "initiated"])
    /\ Return(p, [Resp("BookingCreated") EXCEPT
                     !.req = local[p].req,
                     !.booking = local[p].booking,
                     !.total = local[p].total_amount,
                     !.payment = Len(payments) + 1])
    /\ UNCHANGED <<is_available, cache, now, bookings, seat_bookings,
                   trip_status, trip_fares, session_key>>

\* a database statement of the write phase raises: except Exception -> 500
CreateBookingFail(p) ==
    /\ pc[p] \in {"commit_booking", "commit_sb", "commit_save", "commit_payment"}
    /\ Return(p, [Resp("UnexpectedError") EXCEPT !.req = local[p].req])
    /\ UNCHANGED <<is_available, cache, now, bookings, seat_bookings, payments,
                   trip_status, trip_fares, session_key>>

\* cache.delete(lock_key) raises (the cache backend fails): the call is
\* inside the handler's try block, except Exception -> 500
CreateBookingDeleteLockFail(p) ==
    /\ pc[p] = "commit_unlock"
    /\ Return(p, [Resp("UnexpectedError") EXCEPT
                     !.req = local[p].req, !.booking = local[p].booking])
    /\ UNCHANGED <<is_available, cache, now, bookings, seat_bookings, payments,
                   trip_status, trip_fares, session_key>>

\* ------------------------------------------------------ cancel_booking
SeatsOfBooking(sbs, b) == {sb.seat : sb \in {x \in sbs : x.booking = b}}

\* booking = get_object_or_404(...) and the test on booking.status
CancelBookingBegin(a, b) ==
    /\ Ready(a)
    /\ b \in 1..Len(bookings)
    /\ IF bookings[b].status \notin {"cancelled", "completed"}
       THEN Enter(a, "cancel_save", [L0 EXCEPT !.op = "cancel_booking", !.booking = b])
       ELSE EnterReturn(a, [Resp("Redirect") EXCEPT !.booking = b])
    /\ UNCHANGED <<is_available, cache, now, bookings, seat_bookings, payments,
                   trip_status, trip_fares, session_key>>

\* booking.status = 'cancelled'; booking.save()
CancelBookingSave(a) ==
    /\ pc[a] = "cancel_save"
    /\ bookings' = [bookings EXCEPT ![local[a].booking].status = "cancelled"]
    /\ Goto(a, "cancel_list",
            [local[a] EXCEPT
                !.second = (bookings[local[a].booking].status = "cancelled")])
    /\ UNCHANGED <<is_available, cache, now, seat_bookings, payments,
                   trip_status, trip_fares, session_key>>

\* booking.seat_bookings.all()
CancelBookingList(a) ==
    /\ pc[a] = "cancel_list"
    /\ LET seats == SortedSeq(SeatsOfBooking(seat_bookings, local[a].booking))
       IN IF seats = <<>>
          THEN Return(a, [Resp("Redirect") EXCEPT !.booking = local[a].booking])
          ELSE Goto(a, "cancel_seat", [local[a] EXCEPT !.seats = seats, !.i = 1])
    /\ UNCHANGED <<is_available, cache, now, bookings, seat_bookings, payments,
                   trip_status, trip_fares, session_key>>

\* seat_booking.seat.is_available = True; seat_booking.seat.save()
CancelBookingFreeSeat(a) ==
    /\ pc[a] = "cancel_seat"
    /\ is_available' = [is_available EXCEPT ![local[a].seats[local[a].i]] = TRUE]
    /\ IF local[a].i < Len(local[a].seats)
       THEN Goto(a, "cancel_seat", [local[a] EXCEPT !.i = local[a].i + 1])
       ELSE Return(a, [Resp("Redirect") EXCEPT !.booking = local[a].booking])
    /\ UNCHANGED <<cache, now, bookings, seat_bookings, payments,
                   trip_status, trip_fares, session_key>>

\* --------------------------------------------------------- cancel_trip
\* trip = get_object_or_404(...) and the test on trip.status
CancelTripBegin(a) ==
    /\ Ready(a)
    /\ IF trip_status \in {"completed", "cancelled"}
       THEN EnterReturn(a, Resp("CannotCancelTrip"))
       ELSE Enter(a, "trip_update",
                  [L0 EXCEPT !.op = "cancel_trip", !.fares = trip_fares])
    /\ UNCHANGED <<is_available, cache, now, bookings, seat_bookings, payments,
                   trip_status, trip_fares, session_key>>

\* Booking.objects.filter(trip=trip, status__in=['pending', 'confirmed'])
\*     .update(status='cancelled')
CancelTripUpdate(a) ==
    /\ pc[a] = "trip_update"
    /\ bookings' = [b \in 1..Len(bookings) |->
                      IF bookings[b].trip = TripId
                         /\ bookings[b].status \in {"pending", "confirmed"}
                      THEN [bookings[b] EXCEPT !.status = "cancelled"]
                      ELSE bookings[b]]
    /\ Goto(a, "trip_save", local[a])
    /\ UNCHANGED <<is_available, cache, now, seat_bookings, payments,
                   trip_status, trip_fares, session_key>>

\* trip.status = 'cancelled'; trip.save(): the save writes every field of
\* the instance loaded at the start of the request
CancelTripSave(a) ==
    /\ pc[a] = "trip_save"
    /\ trip_status' = "cancelled"
    /\ trip_fares' = local[a].fares
    /\ Return(a, Resp("TripCancelled"))
    /\ UNCHANGED <<is_available, cache, now, bookings, seat_bookings, payments,
                   session_key>>

\* ------------------- SecurityMonitoringMiddleware.is_rate_limited
\* cache.get(cache_key, 0) at time t
RateGet(e, t) == IF e.expires > t THEN e.value ELSE 0

\* whether the entry has not expired at time t
RateLive(e, t) == e.expires > t

\* an is_rate_limited that also counts the requests it rejects
IsRateLimitedGetCounting(p) ==
    /\ Ready(p)
    /\ nreq' = [nreq EXCEPT ![p] = nreq[p] + 1]
    /\ LET requests == RateGet(rate_limit, now)
       IN IF requests >= RATE_LIMIT_REQUESTS
          THEN /\ pc' = [pc EXCEPT ![p] = "done"]
               /\ local' = [local EXCEPT ![p] = L0]
               /\ response' = [response EXCEPT ![p] = Resp("RateLimited")]
               /\ rate_limit' = [rate_limit EXCEPT
                                    !.value = requests + 1,
                                    !.expires = now + RATE_LIMIT_WINDOW]
          ELSE /\ pc' = [pc EXCEPT ![p] = "rate_set"]
               /\ local' = [local EXCEPT ![p] =
                               [L0 EXCEPT !.op = "rate", !.requests = requests]]
               /\ response' = [response EXCEPT ![p] = R0]
               /\ UNCHANGED rate_limit
    /\ UNCHANGED <<is_available, cache, now, bookings, seat_bookings, payments,
                   trip_status, trip_fares, session_key>>

\* requests = cache.get(cache_key, 0) and the test against
\* RATE_LIMIT_REQUESTS; process_request answers 403 when it is reached
IsRateLimitedGet(p) ==
    /\ Ready(p)
    /\ nreq' = [nreq EXCEPT ![p] = nreq[p] + 1]
    /\ LET requests == RateGet(rate_limit, now)
       IN IF requests >= RATE_LIMIT_REQUESTS
          THEN /\ pc' = [pc EXCEPT ![p] = "done"]
               /\ local' = [local EXCEPT ![p] = L0]
               /\ response' = [response EXCEPT ![p] = Resp("RateLimited")]
          ELSE /\ pc' = [pc EXCEPT ![p] = "rate_set"]
               /\ local' = [local EXCEPT ![p] =
                               [L0 EXCEPT !.op = "rate", !.requests = requests]]
               /\ response' = [response EXCEPT ![p] = R0]
    /\ UNCHANGED <<is_available, cache, now, bookings, seat_bookings, payments,
                   trip_status, trip_fares, session_key, rate_limit>>

\* cache.set(cache_key, requests + 1, RATE_LIMIT_WINDOW); return False:
\* the request is admitted
IsRateLimitedSet(p) ==
    /\ pc[p] = "rate_set"
    /\ rate_limit' = [value |-> local[p].requests + 1,
                      expires |-> now + RATE_LIMIT_WINDOW,
                      admitted |-> IF RateLive(rate_limit, now)
                                   THEN rate_limit.admitted + 1 ELSE 1]
    /\ pc' = [pc EXCEPT ![p] = "done"]
    /\ local' = [local EXCEPT ![p] = L0]
    /\ response' = [response EXCEPT ![p] = Resp("Admitted")]
    /\ UNCHANGED <<is_available, cache, now, bookings, seat_bookings, payments,
                   trip_status, trip_fares, session_key, nreq>>

\* ------------------------------------------------- admin.BookingAdmin
\* Booking.BOOKING_STATUS_CHOICES
BOOKING_STATUS_CHOICES == {"pending", "paid", "confirmed", "cancelled", "completed"}

\* the change form of a Booking in the admin site: status is an editable
\* field, the form accepts any of its choices and saves the row
BookingAdminSave(a, b, st) ==
    /\ Ready(a)
    /\ b \in 1..Len(bookings)
    /\ st \in BOOKING_STATUS_CHOICES
    /\ bookings' = [bookings EXCEPT ![b].status = st]
    /\ EnterReturn(a, [Resp("AdminSaved") EXCEPT !.booking = b])
    /\ UNCHANGED <<is_available, cache, now, seat_bookings, payments,
                   trip_status, trip_fares, session_key>>

\* ----------------------------------------------------------- trip_form
\* Trip.TRIP_STATUS_CHOICES
TRIP_STATUS_CHOICES == {"scheduled", "boarding", "departed", "completed", "cancelled"}

\* the fares a staff user may type into the form
FareInputs == {[vip |-> 2000, business |-> 1500, normal |-> 1200],
               [vip |-> 1000, business |-> 1200, normal |-> 1000]}

\* the statuses a staff user may select in the form
StatusInputs == {"scheduled", "boarding"}

\* TripForm.clean: the validation of the fare amounts
FaresValid(f) == f.vip >= f.business /\ f.business >= f.normal

\* an edit of the trip that also recomputes the fares stored with the
\* trip's bookings
TripFormSaveReprice(a, f, st) ==
    /\ Ready(a)
    /\ IF FaresValid(f)
       THEN /\ trip_fares' = f
            /\ trip_status' = st
            /\ seat_bookings' = {[sb EXCEPT !.fare = FareOf(f, sb.seat)] :
                                    sb \in seat_bookings}
            /\ bookings' = [b \in 1..Len(bookings) |->
                  [bookings[b] EXCEPT !.total_amount =
                      SumFares(SortedSeq(SeatsOfBooking(seat_bookings, b)))']]
            /\ EnterReturn(a, Resp("TripSaved"))
       ELSE /\ UNCHANGED <<trip_fares, trip_status, seat_bookings, bookings>>
            /\ EnterReturn(a, Resp("FormInvalid"))
    /\ UNCHANGED <<is_available, cache, now, payments, session_key>>

\* POST of trip_form for an existing trip: TripForm(request.POST,
\* instance=trip), form.is_valid(), trip.save()
TripFormSave(a, f, st) ==
    /\ Ready(a)
    /\ IF FaresValid(f)
       THEN /\ trip_fares' = f
            /\ trip_status' = st
            /\ EnterReturn(a, Resp("TripSaved"))
       ELSE /\ UNCHANGED <<trip_fares, trip_status>>
            /\ EnterReturn(a, Resp("FormInvalid"))
    /\ UNCHANGED <<is_available, cache, now, bookings, seat_bookings, payments,
                   session_key>>

Next ==
    \/ Tick
    \/ \E p \in Clients, s \in Seats : LockSeatBegin(p, s)
    \/ \E p \in Clients : LockSeatGet(p)
    \/ \E p \in Clients : LockSeatSet(p)
    \/ \E p \in Clients, s \in Seats : UnlockSeatGet(p, s)
    \/ \E p \in Clients : UnlockSeatDelete(p)
    \/ \E p \in Clients, req \in SeatLists, pts \in PointChoices :
          CreateBookingBegin(p, req, pts)
    \/ \E p \in Clients : CreateBookingCheckLock(p)
    \/ \E p \in Clients : CreateBookingCount(p)
    \/ \E p \in Clients : CreateBookingValuesList(p)
    \/ \E p \in Clients : CreateBookingEvaluate(p)
    \/ \E p \in Clients : CreateBookingInsert(p)
    \/ \E p \in Clients : CreateBookingSeatBooking(p)
    \/ \E p \in Clients : CreateBookingSaveSeat(p)
    \/ \E p \in Clients : CreateBookingDeleteLock(p)
    \/ \E p \in Clients : CreateBookingPayment(p)
    \/ \E p \in Clients : CreateBookingFail(p)
    \/ \E a \in Admins, b \in 1..MaxBookings : CancelBookingBegin(a, b)
    \/ \E a \in Admins : CancelBookingSave(a)
    \/ \E a \in Admins : CancelBookingList(a)
    \/ \E a \in Admins : CancelBookingFreeSeat(a)
    \/ \E a \in Admins : CancelTripBegin(a)
    \/ \E a \in Admins : CancelTripUpdate(a)
    \/ \E a \in Admins : CancelTripSave(a)

Spec == Init /\ [][Next]_vars

\* two staff users cancelling bookings while sessions hold and commit seats
NextCancel ==
    \/ \E p \in Clients, s \in Seats : LockSeatBegin(p, s)
    \/ \E p \in Clients : LockSeatGet(p)
    \/ \E p \in Clients : LockSeatSet(p)
    \/ \E p \in Clients, req \in SeatLists, pts \in PointChoices :
          CreateBookingBegin(p, req, pts)
    \/ \E p \in Clients : CreateBookingCheckLock(p)
    \/ \E p \in Clients : CreateBookingCount(p)
    \/ \E p \in Clients : CreateBookingValuesList(p)
    \/ \E p \in Clients : CreateBookingEvaluate(p)
    \/ \E p \in Clients : CreateBookingInsert(p)
    \/ \E p \in Clients : CreateBookingSeatBooking(p)
    \/ \E p \in Clients : CreateBookingSaveSeat(p)
    \/ \E p \in Clients : CreateBookingDeleteLock(p)
    \/ \E p \in Clients : CreateBookingPayment(p)
    \/ \E a \in Staff, b \in 1..MaxBookings : CancelBookingBegin(a, b)
    \/ \E a \in Staff : CancelBookingSave(a)
    \/ \E a \in Staff : CancelBookingList(a)
    \/ \E a \in Staff : CancelBookingFreeSeat(a)

SpecCancel == Init /\ [][NextCancel]_vars

\* sessions reading the seat map while they hold and commit seats and time
\* passes
NextSeats ==
    \/ Tick
    \/ \E p \in Clients, s \in Seats : LockSeatBegin(p, s)
    \/ \E p \in Clients : LockSeatGet(p)
    \/ \E p \in Clients : LockSeatSet(p)
    \/ \E p \in Clients, req \in SeatLists, pts \in PointChoices :
          CreateBookingBegin(p, req, pts)
    \/ \E p \in Clients : CreateBookingCheckLock(p)
    \/ \E p \in Clients : CreateBookingCount(p)
    \/ \E p \in Clients : CreateBookingValuesList(p)
    \/ \E p \in Clients : CreateBookingEvaluate(p)
    \/ \E p \in Clients : CreateBookingInsert(p)
    \/ \E p \in Clients : CreateBookingSeatBooking(p)
    \/ \E p \in Clients : CreateBookingSaveSeat(p)
    \/ \E p \in Clients : CreateBookingDeleteLock(p)
    \/ \E p \in Clients : CreateBookingPayment(p)
    \/ \E p \in Clients : GetSeatsQuery(p)
    \/ \E p \in Clients : GetSeatsEntry(p)

SpecSeats == Init /\ [][NextSeats]_vars

\* sessions holding seats and committing them with boarding and dropping
\* points of any route
NextPoints ==
    \/ \E p \in Clients, s \in Seats : LockSeatBegin(p, s)
    \/ \E p \in Clients : LockSeatGet(p)
    \/ \E p \in Clients : LockSeatSet(p)
    \/ \E p \in Clients, req \in SeatLists, pts \in PointChoicesAnyRoute :
          CreateBookingBegin(p, req, pts)
    \/ \E p \in Clients : CreateBookingCheckLock(p)
    \/ \E p \in Clients : CreateBookingCount(p)
    \/ \E p \in Clients : CreateBookingValuesList(p)
    \/ \E p \in Clients : CreateBookingEvaluate(p)
    \/ \E p \in Clients : CreateBookingInsert(p)
    \/ \E p \in Clients : CreateBookingSeatBooking(p)
    \/ \E p \in Clients : CreateBookingSaveSeat(p)
    \/ \E p \in Clients : CreateBookingDeleteLock(p)
    \/ \E p \in Clients : CreateBookingPayment(p)

SpecPoints == Init /\ [][NextPoints]_vars

\* sessions holding seats and committing them under the trip_id of any trip
NextTrips ==
    \/ \E p \in Clients, s \in Seats : LockSeatBegin(p, s)
    \/ \E p \in Clients : LockSeatGet(p)
    \/ \E p \in Clients : LockSeatSet(p)
    \/ \E p \in Clients, trip_id \in TripIds, req \in SeatLists,
            pts \in PointChoices : CreateBookingBeginTrip(p, trip_id, req, pts)
    \/ \E p \in Clients : CreateBookingCheckLock(p)
    \/ \E p \in Clients : CreateBookingCount(p)
    \/ \E p \in Clients : CreateBookingValuesList(p)
    \/ \E p \in Clients : CreateBookingEvaluate(p)
    \/ \E p \in Clients : CreateBookingInsert(p)
    \/ \E p \in Clients : CreateBookingSeatBooking(p)
    \/ \E p \in Clients : CreateBookingSaveSeat(p)
    \/ \E p \in Clients : CreateBookingDeleteLock(p)
    \/ \E p \in Clients : CreateBookingPayment(p)

SpecTrips == Init /\ [][NextTrips]_vars

\* the state in which the requests of one client IP find its counter: no
\* entry yet, or the entry that RATE_LIMIT_REQUESTS - MaxClientRequests
\* requests, admitted one after the other at time 0, have left
InitRate ==
    /\ is_available = [s \in Seats |-> TRUE]
    /\ cache = [s \in Seats |-> NoEntry]
    /\ now = 0
    /\ bookings = <<>>
    /\ seat_bookings = {}
    /\ payments = <<>>
    /\ trip_status = "scheduled"
    /\ trip_fares = base_fare
    /\ session_key = [c \in Clients |-> FALSE]
    /\ pc = [p \in Procs |-> "idle"]
    /\ local = [p \in Procs |-> L0]
    /\ response = [p \in Procs |-> R0]
    /\ nreq = [p \in Procs |-> 0]
    /\ rate_limit \in {NoCounter,
                        [value |-> RATE_LIMIT_REQUESTS - MaxClientRequests,
                         expires |-> RATE_LIMIT_WINDOW,
                         admitted |-> RATE_LIMIT_REQUESTS - MaxClientRequests]}

\* requests of one client IP, handled by concurrent threads, passing the
\* middleware while time passes
NextRate ==
    \/ Tick
    \/ \E p \in Procs : IsRateLimitedGet(p)
    \/ \E p \in Procs : IsRateLimitedSet(p)

SpecRate == InitRate /\ [][NextRate]_vars

\* sessions holding and committing seats over a cache whose delete may fail
NextCleanup ==
    \/ \E p \in Clients, s \in Seats : LockSeatBegin(p, s)
    \/ \E p \in Clients : LockSeatGet(p)
    \/ \E p \in Clients : LockSeatSet(p)
    \/ \E p \in Clients, req \in SeatLists, pts \in PointChoices :
          CreateBookingBegin(p, req, pts)
    \/ \E p \in Clients : CreateBookingCheckLock(p)
    \/ \E p \in Clients : CreateBookingCount(p)
    \/ \E p \in Clients : CreateBookingValuesList(p)
    \/ \E p \in Clients : CreateBookingEvaluate(p)
    \/ \E p \in Clients : CreateBookingInsert(p)
    \/ \E p \in Clients : CreateBookingSeatBooking(p)
    \/ \E p \in Clients : CreateBookingSaveSeat(p)
    \/ \E p \in Clients : CreateBookingDeleteLock(p)
    \/ \E p \in Clients : CreateBookingDeleteLockFail(p)
    \/ \E p \in Clients : CreateBookingPayment(p)

SpecCleanup == Init /\ [][NextCleanup]_vars

\* the state after session A has held every seat of the trip at time 0
InitHeld ==
    /\ is_available = [s \in Seats |-> TRUE]
    /\ cache = [s \in Seats |-> [value |-> "A", expires |-> LOCK_TTL]]
    /\ now = 0
    /\ bookings = <<>>
    /\ seat_bookings = {}
    /\ payments = <<>>
    /\ trip_status = "scheduled"
    /\ trip_fares = base_fare
    /\ session_key = [c \in Clients |-> c = "A"]
    /\ pc = [p \in Procs |-> "idle"]
    /\ local = [p \in Procs |-> L0]
    /\ response = [p \in Procs |-> R0]
    /\ nreq = [p \in Procs |-> 0]
    /\ rate_limit = NoCounter

\* from there, sessions holding and committing seats while time passes
SpecHeld == InitHeld /\ [][NextSeats]_vars

\* the seat each session holds in InitDisjoint
OwnSeat == [c \in Clients |-> IF c = "A" THEN 1 ELSE 2]

\* the state after session A has held seat 1 and session B seat 2 at time 0
InitDisjoint ==
    /\ is_available = [s \in Seats |-> TRUE]
    /\ cache = [s \in Seats |->
                  IF \E c \in Clients : OwnSeat[c] = s
                  THEN [value |-> CHOOSE c \in Clients : OwnSeat[c] = s,
                        expires |-> LOCK_TTL]
                  ELSE NoEntry]
    /\ now = 0
    /\ bookings = <<>>
    /\ seat_bookings = {}
    /\ payments = <<>>
    /\ trip_status = "scheduled"
    /\ trip_fares = base_fare
    /\ session_key = [c \in Clients |-> TRUE]
    /\ pc = [p \in Procs |-> "idle"]
    /\ local = [p \in Procs |-> L0]
    /\ response = [p \in Procs |-> R0]
    /\ nreq = [p \in Procs |-> 0]
    /\ rate_limit = NoCounter

\* from there, the two sessions committing at the same time
NextCommit ==
    \/ \E p \in Clients, req \in SeatLists, pts \in PointChoices :
          CreateBookingBegin(p, req, pts)
    \/ \E p \in Clients : CreateBookingCheckLock(p)
    \/ \E p \in Clients : CreateBookingCount(p)
    \/ \E p \in Clients : CreateBookingValuesList(p)
    \/ \E p \in Clients : CreateBookingEvaluate(p)
    \/ \E p \in Clients : CreateBookingInsert(p)
    \/ \E p \in Clients : CreateBookingSeatBooking(p)
    \/ \E p \in Clients : CreateBookingSaveSeat(p)
    \/ \E p \in Clients : CreateBookingDeleteLock(p)
    \/ \E p \in Clients : CreateBookingPayment(p)

SpecDisjoint == InitDisjoint /\ [][NextCommit]_vars

\* a staff user editing the trip's fares while sessions hold and commit seats
NextFares ==
    \/ \E p \in Clients, s \in Seats : LockSeatBegin(p, s)
    \/ \E p \in Clients : LockSeatGet(p)
    \/ \E p \in Clients : LockSeatSet(p)
    \/ \E p \in Clients, req \in SeatLists, pts \in PointChoices :
          CreateBookingBegin(p, req, pts)
    \/ \E p \in Clients : CreateBookingCheckLock(p)
    \/ \E p \in Clients : CreateBookingCount(p)
    \/ \E p \in Clients : CreateBookingValuesList(p)
    \/ \E p \in Clients : CreateBookingEvaluate(p)
    \/ \E p \in Clients : CreateBookingInsert(p)
    \/ \E p \in Clients : CreateBookingSeatBooking(p)
    \/ \E p \in Clients : CreateBookingSaveSeat(p)
    \/ \E p \in Clients : CreateBookingDeleteLock(p)
    \/ \E p \in Clients : CreateBookingPayment(p)
    \/ \E a \in Admins, f \in FareInputs, st \in StatusInputs :
          TripFormSave(a, f, st)

SpecFares == Init /\ [][NextFares]_vars

\* a staff user driving bookings through their statuses in the admin site
\* while another cancels bookings and the trip
NextLifecycle ==
    \/ \E p \in Clients, s \in Seats : LockSeatBegin(p, s)
    \/ \E p \in Clients : LockSeatGet(p)
    \/ \E p \in Clients : LockSeatSet(p)
    \/ \E p \in Clients, req \in SeatLists, pts \in PointChoices :
          CreateBookingBegin(p, req, pts)
    \/ \E p \in Clients : CreateBookingCheckLock(p)
    \/ \E p \in Clients : CreateBookingCount(p)
    \/ \E p \in Clients : CreateBookingValuesList(p)
    \/ \E p \in Clients : CreateBookingEvaluate(p)
    \/ \E p \in Clients : CreateBookingInsert(p)
    \/ \E p \in Clients : CreateBookingSeatBooking(p)
    \/ \E p \in Clients : CreateBookingSaveSeat(p)
    \/ \E p \in Clients : CreateBookingDeleteLock(p)
    \/ \E p \in Clients : CreateBookingPayment(p)
    \/ \E a \in Admins, b \in 1..MaxBookings : CancelBookingBegin(a, b)
    \/ \E a \in Admins : CancelBookingSave(a)
    \/ \E a \in Admins : CancelBookingList(a)
    \/ \E a \in Admins : CancelBookingFreeSeat(a)
    \/ \E a \in Admins : CancelTripBegin(a)
    \/ \E a \in Admins : CancelTripUpdate(a)
    \/ \E a \in Admins : CancelTripSave(a)
    \/ \E a \in Staff \ Admins, b \in 1..MaxBookings,
            st \in BOOKING_STATUS_CHOICES : BookingAdminSave(a, b, st)

SpecLifecycle == Init /\ [][NextLifecycle]_vars

\* ===================================================================
\* Properties
\* ===================================================================
Cancelled(b) == bookings[b].status = "cancelled"

Quiescent == \A p \in Procs : pc[p] \in {"idle", "done"}

\* the seat's cache entry holds a lock of owner o that has not expired
LiveLock(s, o) == cache[s].value = o /\ cache[s].expires > now

SomeLiveLock(s) == cache[s].value # None /\ cache[s].expires > now

RECURSIVE FareSum(_)
FareSum(rows) ==
    IF rows = {} THEN 0
    ELSE LET r == CHOOSE x \in rows : TRUE IN r.fare + FareSum(rows \ {r})

\* C1: no seat is covered at the same time by SeatBooking rows of two
\* different Bookings that are both not cancelled.
NoDoubleSale ==
    \A x \in seat_bookings : \A y \in seat_bookings :
        (x.seat = y.seat /\ x.booking # y.booking)
            => (Cancelled(x.booking) \/ Cancelled(y.booking))

\* C2: a live lock owned by one session is never overwritten by a hold of
\* a different session: while it is live, a step either leaves the entry,
\* removes it, or writes the same owner.
HoldMutualExclusion ==
    [][\A s \in Seats :
          (SomeLiveLock(s) /\ cache'[s] # cache[s])
              => cache'[s].value \in {None, cache[s].value}]_vars

\* C3: a commit that fails before all requested seats are flipped to sold
\* has inserted no Booking (hence no SeatBooking and no sold flag).
CommitAllOrNothing ==
    [][\A p \in Clients :
          (/\ pc[p] \in {"commit_booking", "commit_sb", "commit_save"}
           /\ pc'[p] = "done"
           /\ response'[p].kind = "UnexpectedError")
              => /\ local[p].booking = 0
                 /\ \A sb \in seat_bookings : sb.booking # local[p].booking]_vars

\* C4: whenever no request is in progress, every seat with
\* is_available = False has exactly one SeatBooking under a Booking that
\* is not cancelled.
SoldSeatHasOneActiveBooking ==
    Quiescent =>
        \A s \in Seats :
            ~is_available[s] =>
                Cardinality({sb \in seat_bookings :
                                sb.seat = s /\ ~Cancelled(sb.booking)}) = 1

\* C5: each iteration of the commit's lock check puts the seat on the
\* unlocked list exactly when the cache holds no live lock of the caller's
\* session for it; after the last iteration the call is rejected with
\* LockExpiredOrStolen naming that list iff the list is not empty; no step of
\* the loop writes a Booking, SeatBooking, Payment or sold flag.
LockCheckRejects ==
    [][\A p \in Clients :
          (pc[p] = "commit_check" /\ local'[p] # local[p]) =>
              LET l == local[p]
                  seat_id == l.req[l.i]
                  unl == IF LiveLock(seat_id, l.sid) THEN l.unlocked_seats
                         ELSE Append(l.unlocked_seats, seat_id)
              IN /\ l.booking = 0
                 /\ UNCHANGED durable
                 /\ l.i < Len(l.req) =>
                       pc'[p] = "commit_check" /\ local'[p].unlocked_seats = unl
                 /\ (l.i = Len(l.req) /\ unl # <<>>) =>
                       /\ pc'[p] = "done"
                       /\ response'[p].kind = "LockExpiredOrStolen"
                       /\ response'[p].seats = unl
                 /\ (l.i = Len(l.req) /\ unl = <<>>) => pc'[p] = "commit_count"]_vars

\* C5 witness: a commit of seats 1 and 2 by a session that holds a live lock
\* on seat 1 only was rejected naming seat 2 only, and nothing was written.
LockCheckRejectsWitness ==
    \E p \in Clients :
        /\ pc[p] = "done"
        /\ response[p].kind = "LockExpiredOrStolen"
        /\ response[p].req = <<1, 2>>
        /\ response[p].seats = <<2>>
        /\ LiveLock(1, p)
        /\ bookings = <<>> /\ seat_bookings = {} /\ payments = <<>>
        /\ \A s \in Seats : is_available[s]

\* C6: a commit that passed the lock check and finds a requested seat sold
\* is rejected with SeatNoLongerAvailable, the response names a non-empty
\* list of requested seats, and nothing durable is written.
SeatNoLongerAvailableNamesSeats ==
    [][\A p \in Clients :
          /\ (/\ pc[p] = "commit_count"
              /\ pc'[p] # "commit_count"
              /\ \E s \in Range(local[p].req) : ~is_available[s])
                 => (pc'[p] = "commit_values" /\ UNCHANGED durable)
          /\ (/\ pc[p] = "commit_values"
              /\ pc'[p] = "done"
              /\ local[p].sold_at_count # {})
                 => /\ response'[p].kind = "SeatNoLongerAvailable"
                    /\ response'[p].seats # <<>>
                    /\ Range(response'[p].seats) \subseteq Range(local[p].req)
                    /\ UNCHANGED durable]_vars

\* C7: a commit that found a live lock of its session on every requested
\* seat and found every requested seat unsold, with existing boarding and
\* dropping points and no database failure, returns a booking reference; the
\* Booking is pending and has exactly one SeatBooking per requested seat, each
\* requested seat is sold and api_get_seats reports it as not available.
CommitPostState ==
    [][\A p \in Clients :
          (/\ pc[p] \in CommitPcs \ {"commit_check", "commit_count"}
           /\ pc'[p] = "done"
           /\ local[p].sold_at_count = {}
           /\ local[p].pts[1] \in RouteStopIds
           /\ local[p].pts[2] \in RouteStopIds
           /\ response'[p].kind # "UnexpectedError")
              => /\ response'[p].kind = "BookingCreated"
                 /\ response'[p].booking \in 1..Len(bookings')
                 /\ bookings'[response'[p].booking].status = "pending"
                 /\ SeatsOfBooking(seat_bookings', response'[p].booking)
                        = Range(local[p].req)
                 /\ Cardinality({sb \in seat_bookings' :
                                    sb.booking = response'[p].booking})
                        = Len(local[p].req)
                 /\ \A s \in Range(local[p].req) :
                       /\ ~is_available'[s]
                       /\ ~SeatData(is_available', cache', now', s).is_available]_vars

\* C8: whenever no request is in progress, the fares of the SeatBooking
\* rows of every Booking add up to its total_amount.
TotalIsSumOfFares ==
    Quiescent =>
        \A b \in 1..Len(bookings) :
            FareSum({sb \in seat_bookings : sb.booking = b})
                = bookings[b].total_amount

\* C9: the delete of a release by session A never removes a live lock whose
\* owner is another session.
ReleaseKeepsOthersLock ==
    [][\A p \in Clients :
          (/\ pc[p] = "unlock_delete"
           /\ pc'[p] = "done"
           /\ local[p].sid # None
           /\ SomeLiveLock(local[p].seat)
           /\ cache[local[p].seat].value # local[p].sid)
              => cache'[local[p].seat] = cache[local[p].seat]]_vars

\* C10: a release goes on to delete the lock (and report success) iff the
\* cache holds a live lock owned by the caller's session; otherwise, also
\* for a caller without a session, it reports failure and leaves the cache
\* unchanged.
ReleaseSucceedsIffOwned ==
    [][\A p \in Clients :
          (/\ pc[p] \in {"idle", "done"}
           /\ nreq'[p] # nreq[p]
           /\ (pc'[p] = "unlock_delete"
                  \/ response'[p].kind = "NotLockedBySession"))
              => LET s == IF pc'[p] = "unlock_delete" THEN local'[p].seat
                          ELSE response'[p].seats[1]
                     owned == session_key[p] /\ LiveLock(s, p)
                 IN /\ owned <=> pc'[p] = "unlock_delete"
                    /\ ~owned => /\ response'[p].kind = "NotLockedBySession"
                                 /\ cache' = cache]_vars

\* C11: a hold on a seat whose Seat row says is_available = False returns
\* 'Seat is already booked' in the step that reads the row, and that step
\* creates or changes no cache entry, whoever the caller is.
HoldOnSoldSeatFails ==
    [][\A p \in Clients, s \in Seats :
          (~is_available[s] /\ LockSeatBegin(p, s))
             => /\ response'[p] = [Resp("AlreadySold") EXCEPT !.seats = <<s>>]
                /\ pc'[p] = "done"
                /\ cache' = cache]_vars

\* a session was refused a hold on a sold seat, and the seat has no lock
HoldOnSoldSeatFailsWitness ==
    \E p \in Clients, s \in Seats :
        /\ response[p] = [Resp("AlreadySold") EXCEPT !.seats = <<s>>]
        /\ ~is_available[s]
        /\ \E b \in 1..Len(bookings) :
              [booking |-> b, seat |-> s, fare |-> get_fare(s)] \in seat_bookings
        /\ cache[s] = NoEntry

\* C12: a hold whose cache.get finds a live lock of a different session
\* returns 'Seat is currently being selected by another user' and leaves
\* the cache entry (owner and expiry) as it was.
HoldOnHeldSeatFails ==
    [][\A p \in Clients :
          (/\ pc[p] = "lock_get"
           /\ pc'[p] # "lock_get"
           /\ \E o \in Clients \ {p} : LiveLock(local[p].seat, o))
             => /\ response'[p] =
                     [Resp("HeldByOther") EXCEPT !.seats = <<local[p].seat>>]
                /\ pc'[p] = "done"
                /\ cache' = cache]_vars

\* a session was refused a hold on a seat that another session's live lock
\* still covers
HoldOnHeldSeatFailsWitness ==
    \E p \in Clients, s \in Seats :
        /\ response[p] = [Resp("HeldByOther") EXCEPT !.seats = <<s>>]
        /\ is_available[s]
        /\ \E o \in Clients \ {p} : LiveLock(s, o) /\ cache[s].expires = LOCK_TTL
        /\ now > 0

\* C13: a hold by the session that already owns the seat's live lock
\* succeeds and leaves the lock's expiry where the first hold put it.
NoSlidingRenewal ==
    [][\A p \in Clients :
          (/\ pc[p] = "lock_set"
           /\ pc'[p] = "done"
           /\ LiveLock(local[p].seat, local[p].sid))
             => /\ response'[p].kind = "LockOk"
                /\ cache'[local[p].seat] = cache[local[p].seat]]_vars

\* C14: a hold that reads a live lock of another session is refused and
\* changes nothing; a lock lives exactly LOCK_TTL from the hold that wrote
\* it; once that time has passed the entry, though nothing has removed it,
\* no longer blocks, and the other session's hold goes on to take the seat.
LockExpiry ==
    [][\A p \in Clients :
          LET s == local[p].seat
              e == cache[s]
          IN /\ (pc[p] = "lock_get" /\ pc'[p] # "lock_get"
                   /\ e.value \in Clients \ {p} /\ now < e.expires)
                  => (response'[p].kind = "HeldByOther" /\ cache' = cache)
             /\ (pc[p] = "lock_get" /\ pc'[p] # "lock_get"
                   /\ e.value \in Clients \ {p} /\ now >= e.expires)
                  => (pc'[p] = "lock_set" /\ cache' = cache)
             /\ (pc[p] = "lock_set" /\ pc'[p] = "done")
                  => /\ response'[p].kind = "LockOk"
                     /\ cache' = [cache EXCEPT ![s] =
                           [value |-> p, expires |-> now + LOCK_TTL]]]_vars

\* session A held the seat at time 0 and did nothing since; at time LOCK_TTL
\* session B's hold found A's entry expired and is about to take the seat
LockExpiryWitness ==
    \E s \in Seats :
        /\ response["A"] = [Resp("LockOk") EXCEPT !.seats = <<s>>]
        /\ nreq["A"] = 1
        /\ cache[s] = [value |-> "A", expires |-> LOCK_TTL]
        /\ now = LOCK_TTL
        /\ is_available[s]
        /\ pc["B"] = "lock_set" /\ local["B"].seat = s
        /\ nreq["B"] = 1


\* a staff request is inside cancel_booking
CancelPcs == {"cancel_save", "cancel_list", "cancel_seat"}

\* C15: a second cancel_booking on a booking changes nothing.  Sequential:
\* a request that reads the status cancelled redirects without a write.
\* Concurrent: a request whose save found the booking already cancelled by
\* another request, running on after that request and every commit have
\* finished, does not set back to available a seat that is sold to another
\* booking.
CancelIdempotent ==
    [][\A a \in Staff :
          /\ \A b \in 1..Len(bookings) :
                (Cancelled(b) /\ CancelBookingBegin(a, b))
                   => (UNCHANGED durable /\ response'[a].kind = "Redirect")
          /\ (/\ pc[a] \in CancelPcs
              /\ local[a].second
              /\ \A o \in Staff \ {a} : pc[o] \notin CancelPcs
              /\ \A p \in Clients : pc[p] \notin CommitPcs)
                => \A s \in Seats :
                      (~is_available[s] /\ is_available'[s])
                         => ~\E sb \in seat_bookings :
                                /\ sb.seat = s
                                /\ sb.booking # local[a].booking
                                /\ ~Cancelled(sb.booking)]_vars


\* C16: cancel_booking and cancel_trip change a Booking's status only from
\* pending, paid or confirmed and only to cancelled: no step of theirs
\* changes the status of a completed or a cancelled booking, and a
\* cancel_booking on a completed booking changes neither its status nor a
\* sold flag.
BookingLifecycle ==
    [][\A a \in Staff :
          /\ (pc[a] \in CancelPcs \cup {"trip_update"} /\ pc'[a] # pc[a])
                => \A b \in 1..Len(bookings) :
                      bookings'[b].status # bookings[b].status
                         => /\ bookings[b].status \in {"pending", "paid", "confirmed"}
                            /\ bookings'[b].status = "cancelled"
          /\ (/\ pc[a] \in CancelPcs /\ pc'[a] # pc[a]
              /\ bookings[local[a].booking].status = "completed")
                => UNCHANGED <<bookings, is_available>>
          /\ \A b \in 1..Len(bookings) :
                (bookings[b].status = "completed" /\ CancelBookingBegin(a, b))
                   => UNCHANGED durable]_vars


\* C17: no step of api_get_seats writes anything; the entry it appends for a
\* seat has is_locked true exactly when the cache holds, at that moment, an
\* entry for the seat whose expiry has not passed, and is_available true
\* exactly when the Seat row the request read says available and is_locked
\* is false; the response is the list of these entries.
AvailabilityIsReadTimeJoin ==
    [][\A p \in Clients :
          /\ GetSeatsQuery(p)
                => /\ local'[p].rows = is_available
                   /\ UNCHANGED <<durable, cache>>
          /\ (pc[p] = "seats_entry" /\ local'[p] # local[p])
                => LET s == local[p].i
                       d == IF pc'[p] = "done" THEN response'[p].seat_data
                            ELSE local'[p].seat_data
                   IN /\ Len(d) = s
                      /\ \A k \in 1..(s - 1) : d[k] = local[p].seat_data[k]
                      /\ d[s].is_locked = SomeLiveLock(s)
                      /\ d[s].is_available = (local[p].rows[s] /\ ~SomeLiveLock(s))
                      /\ pc'[p] = "done" <=> s = NumSeats
                      /\ UNCHANGED <<durable, cache>>]_vars

\* a seat map returned at time LOCK_TTL: seat 1 still has the entry of A's
\* hold of time 0, which nothing has removed, and is reported free; seat 2 is
\* under B's live lock and is reported locked
AvailabilityIsReadTimeJoinWitness ==
    \E p \in Clients :
        /\ response[p].kind = "SeatData"
        /\ response[p].seat_data =
              <<[is_locked |-> FALSE, is_available |-> TRUE],
                [is_locked |-> TRUE, is_available |-> FALSE]>>
        /\ cache[1] = [value |-> "A", expires |-> LOCK_TTL]
        /\ now = LOCK_TTL
        /\ LiveLock(2, "B")
        /\ \A s \in Seats : is_available[s]


\* the SeatBooking rows of booking b
RowsOf(sbs, b) == {sb \in sbs : sb.booking = b}

\* C18: once a commit has finished (the booking has its Payment), no step
\* changes the booking's total_amount or the fares of its SeatBooking rows;
\* a step that changes the trip's fares changes no Booking, SeatBooking or
\* Payment row at all.
FareSnapshot ==
    [][/\ \A b \in 1..Len(bookings) :
             (\E k \in 1..Len(payments) : payments[k].booking = b)
                => /\ bookings'[b].total_amount = bookings[b].total_amount
                   /\ RowsOf(seat_bookings', b) = RowsOf(seat_bookings, b)
       /\ trip_fares' # trip_fares
             => UNCHANGED <<bookings, seat_bookings, payments>>]_vars

\* a booking was committed at the seeded fares, then the trip's fares were
\* changed: the booking's total and the sum of its rows' fares are still what
\* the commit returned, and differ from the seats' fares of now
FareSnapshotWitness ==
    \E p \in Clients :
        /\ response[p].kind = "BookingCreated"
        /\ response["adm"].kind = "TripSaved"
        /\ trip_fares # base_fare
        /\ LET b == response[p].booking
           IN /\ bookings[b].total_amount = response[p].total
              /\ FareSum(RowsOf(seat_bookings, b)) = response[p].total
              /\ \A sb \in RowsOf(seat_bookings, b) :
                    sb.fare = FareOf(base_fare, sb.seat)
              /\ SumFares(SortedSeq(SeatsOfBooking(seat_bookings, b)))
                    # response[p].total


\* C19: the lock check of a commit changes no cache entry and no sold flag,
\* and when it rejects the call with LockExpiredOrStolen, every requested
\* seat that the caller's session still holds is not among the seats named
\* and keeps its lock, owner and expiry, and its sold flag.
RejectionKeepsOtherLocks ==
    [][\A p \in Clients :
          /\ (pc[p] = "commit_check" /\ local'[p] # local[p])
                => UNCHANGED <<cache, durable>>
          /\ (pc[p] = "commit_check" /\ response'[p].kind = "LockExpiredOrStolen")
                => /\ response'[p].seats # <<>>
                   /\ \A s \in Range(local[p].req) :
                         LiveLock(s, p)
                            => /\ s \notin Range(response'[p].seats)
                               /\ cache'[s] = cache[s]
                               /\ cache'[s].value = p /\ cache'[s].expires > now'
                               /\ is_available'[s] = is_available[s]]_vars

\* session A committed seats 1 and 2 holding seat 1 only, seat 2 having been
\* held and committed by B: the rejection names seat 2 only, seat 1 is still
\* unsold and under A's lock
RejectionKeepsOtherLocksWitness ==
    /\ response["A"].kind = "LockExpiredOrStolen"
    /\ response["A"].req = <<1, 2>>
    /\ response["A"].seats = <<2>>
    /\ LiveLock(1, "A") /\ cache[1].expires = now + LOCK_TTL \div 2
    /\ is_available[1]
    /\ ~is_available[2]
    /\ response["B"].kind = "BookingCreated" /\ response["B"].req = <<2>>
    /\ RowsOf(seat_bookings, response["B"].booking)
          = {[booking |-> response["B"].booking, seat |-> 2, fare |-> get_fare(2)]}

\* C20: a commit answers BookingCreated exactly in the step that creates a
\* Payment; that step comes after the loop over the seats has finished, when
\* the Booking and a SeatBooking for each of its seats exist and each seat
\* has been saved as sold (it is sold unless a cancel_booking has run since);
\* the Payment is the only one of the booking, has status initiated and the
\* booking's total_amount, and the response carries its id, the booking and
\* the total.
PaymentAfterWrites ==
    [][/\ payments' # payments
            => \E q \in Clients :
                  LET b == local[q].booking
                  IN /\ pc[q] = "commit_payment" /\ pc'[q] = "done"
                     /\ b \in 1..Len(bookings)
                     /\ local[q].i = Len(local[q].seats) + 1
                     /\ \A s \in Range(local[q].seats) :
                           /\ \E sb \in RowsOf(seat_bookings, b) : sb.seat = s
                           /\ ~is_available[s] \/ \E a \in Staff : nreq[a] > 0
                     /\ \A k \in 1..Len(payments) : payments[k].booking # b
                     /\ payments' = Append(payments,
                           [booking |-> b, amount |-> bookings[b].total_amount,
                            status |-> "initiated"])
                     /\ response'[q] = [Resp("BookingCreated") EXCEPT
                           !.req = local[q].req, !.booking = b,
                           !.total = bookings[b].total_amount,
                           !.payment = Len(payments')]
       /\ \A p \in Clients :
             (pc[p] \in CommitPcs /\ response'[p].kind = "BookingCreated")
                => payments' # payments]_vars

\* a commit of seat 1 has answered: booking 1, its one SeatBooking, the seat
\* sold, and payment 1 of 1500 with status initiated
PaymentAfterWritesWitness ==
    \E p \in Clients :
        /\ response[p] = [Resp("BookingCreated") EXCEPT
              !.req = <<1>>, !.booking = 1, !.total = 1500, !.payment = 1]
        /\ payments = <<[booking |-> 1, amount |-> 1500, status |-> "initiated"]>>
        /\ bookings[1].total_amount = 1500
        /\ seat_bookings = {[booking |-> 1, seat |-> 1, fare |-> 1500]}
        /\ ~is_available[1]


\* the stop exists and is a stop of the trip's route
OnTripRoute(id) == id \in RouteStopIds /\ RouteOfStop[id] = TripRoute

\* C21: a commit whose boarding or dropping point is not a stop of the
\* trip's route writes nothing durable and touches no lock in any of its
\* steps, never answers BookingCreated, and once its seats have been found
\* available it answers InvalidBoardingPoint.
OffRoutePointRejected ==
    [][\A p \in Clients :
          (/\ pc[p] \in CommitPcs
           /\ pc'[p] # pc[p] \/ local'[p] # local[p]
           /\ ~(OnTripRoute(local[p].pts[1]) /\ OnTripRoute(local[p].pts[2])))
             => /\ UNCHANGED <<durable, cache>>
                /\ response'[p].kind # "BookingCreated"
                /\ (pc[p] = "commit_count" /\ pc'[p] # "commit_values")
                      => response'[p].kind = "InvalidBoardingPoint"]_vars


\* C22: a commit does not go on to its durable write when a seat it asked
\* for has been sold since its lock check (it answers SeatNoLongerAvailable
\* instead), and of the commits that ask for one seat at most one answers
\* BookingCreated.
CheckToWriteClosed ==
    /\ \A p \in Clients :
          pc[p] = "commit_booking"
             => \A s \in Range(local[p].req) : is_available[s]
    /\ \A p, q \in Clients :
          (/\ p # q
           /\ response[p].kind = "BookingCreated"
           /\ response[q].kind = "BookingCreated")
             => Range(response[p].req) \cap Range(response[q].req) = {}


\* C23: no seat is sold and under a live lock at the same time, the moment
\* between a commit's seat.save() and its cache.delete for that seat aside.
LockedAndSoldDisjoint ==
    \A s \in Seats :
        (SomeLiveLock(s) /\ ~is_available[s])
           => \E p \in Clients :
                 /\ pc[p] = "commit_unlock"
                 /\ local[p].seats[local[p].i] = s


\* C24: the lock check records a requested seat as locked exactly when the
\* cache holds, at that read, an unexpired entry of the commit's own session;
\* a seat's flag goes from available to sold only in the seat.save() of a
\* commit that recorded the seat as locked in its lock check.
CommitSellsOnlyHeld ==
    [][/\ \A p \in Clients :
             (pc[p] = "commit_check" /\ local'[p] # local[p] /\ pc'[p] # "done")
                => LET seat_id == local[p].req[local[p].i]
                   IN local'[p].locked_seats =
                         IF LiveLock(seat_id, p)
                         THEN Append(local[p].locked_seats, seat_id)
                         ELSE local[p].locked_seats
       /\ \A s \in Seats :
             (is_available[s] /\ ~is_available'[s])
                => \E p \in Clients :
                      /\ pc[p] = "commit_save" /\ pc'[p] = "commit_unlock"
                      /\ local[p].sid = p
                      /\ local[p].seats[local[p].i] = s
                      /\ local[p].unlocked_seats = <<>>
                      /\ s \in Range(local[p].locked_seats)]_vars

\* a commit of seat 1 by the session that held it at the lock check has just
\* saved the seat as sold
CommitSellsOnlyHeldWitness ==
    \E p \in Clients :
        /\ pc[p] = "commit_unlock"
        /\ local[p].req = <<1>>
        /\ local[p].locked_seats = <<1>>
        /\ local[p].seats = <<1>>
        /\ ~is_available[1]
        /\ LiveLock(1, p)
        /\ seat_bookings = {[booking |-> local[p].booking, seat |-> 1,
                             fare |-> get_fare(1)]}


\* C25: no step of a commit changes or removes a live lock that another
\* session owns.
CleanupOnlyOwnLocks ==
    [][\A p \in Clients, s \in Seats :
          (/\ pc[p] \in CommitPcs
           /\ pc'[p] # pc[p] \/ local'[p] # local[p]
           /\ \E o \in Clients \ {p} : LiveLock(s, o))
             => cache'[s] = cache[s]]_vars

\* C26: a commit that has saved a seat as sold and comes to delete the
\* seat's lock goes on, whether the delete works or not, to the next seat or
\* to the Payment; it does not answer with an error.
CleanupFailureTolerated ==
    [][\A p \in Clients :
          (pc[p] = "commit_unlock" /\ pc'[p] # pc[p])
             => /\ pc'[p] \in {"commit_sb", "commit_payment"}
                /\ response'[p].kind # "UnexpectedError"]_vars


\* C27: when a step of a commit removes the lock of a seat, the commit's
\* durable write is complete: the Booking exists, and every seat the commit
\* writes has its SeatBooking row and is saved as sold.
LocksDeletedAfterWrite ==
    [][\A p \in Clients :
          (/\ pc[p] \in CommitPcs
           /\ pc'[p] # pc[p] \/ local'[p] # local[p]
           /\ cache' # cache)
             => /\ local[p].booking \in 1..Len(bookings)
                /\ \A s \in Range(local[p].seats) :
                      /\ \E sb \in RowsOf(seat_bookings, local[p].booking) :
                            sb.seat = s
                      /\ ~is_available[s]]_vars


\* the seats a commit in its write phase has saved as sold so far
SavedBy(p) ==
    {local[p].seats[k] : k \in 1..(local[p].i - 1)}
       \cup (IF pc[p] = "commit_unlock" THEN {local[p].seats[local[p].i]} ELSE {})

\* C28: a seat's flag goes from available to sold only in the seat.save() of
\* a commit, and that commit succeeds (it does not answer with an error once
\* it has saved a seat); it goes from sold to available only in the loop of
\* cancel_booking over the booking's seats; every other step, of hold,
\* release, the clock, the total calculation and cancel_trip, leaves every
\* flag as it is.
SoldFlagFrame ==
    [][/\ \A s \in Seats :
             (is_available[s] /\ ~is_available'[s])
                => \E p \in Clients :
                      /\ pc[p] = "commit_save" /\ pc'[p] = "commit_unlock"
                      /\ local[p].seats[local[p].i] = s
       /\ \A s \in Seats :
             (~is_available[s] /\ is_available'[s])
                => \E a \in Staff :
                      /\ pc[a] = "cancel_seat" /\ local'[a] # local[a]
                      /\ local[a].seats[local[a].i] = s
       /\ \A p \in Clients :
             (/\ pc[p] \in {"commit_sb", "commit_save", "commit_unlock",
                            "commit_payment"}
              /\ SavedBy(p) # {})
                => response'[p].kind # "UnexpectedError"]_vars


\* C29: with session A holding seat 1 and session B seat 2, the first commit
\* of each session, asking for the seat it holds with valid points, passes
\* every check whatever the other session's requests do in between and ends
\* with BookingCreated; its Booking has exactly one SeatBooking, of that
\* seat, the seat is sold, and the other session's seat and lock are as they
\* were before each of its steps.
DisjointCommitsSucceed ==
    [][\A p \in Clients :
          (/\ pc[p] \in CommitPcs
           /\ pc'[p] # pc[p] \/ local'[p] # local[p]
           /\ nreq[p] = 1
           /\ local[p].req = <<OwnSeat[p]>>
           /\ local[p].pts \in RouteStopIds \X RouteStopIds)
             => /\ \A s \in Seats \ {OwnSeat[p]} :
                      cache'[s] = cache[s] /\ is_available'[s] = is_available[s]
                /\ pc'[p] = "done"
                      => /\ response'[p].kind = "BookingCreated"
                         /\ response'[p].booking \in 1..Len(bookings')
                         /\ {sb.seat : sb \in RowsOf(seat_bookings',
                                                     response'[p].booking)}
                               = {OwnSeat[p]}
                         /\ Cardinality(RowsOf(seat_bookings',
                                               response'[p].booking)) = 1
                         /\ ~is_available'[OwnSeat[p]]]_vars

\* both sessions are in the middle of their commits at the same time, each
\* with its own Booking and its own seat written
DisjointCommitsSucceedWitness ==
    /\ pc["A"] = "commit_payment" /\ pc["B"] = "commit_payment"
    /\ local["A"].req = <<1>> /\ local["B"].req = <<2>>
    /\ Len(bookings) = MaxBookings
    /\ RowsOf(seat_bookings, local["A"].booking)
          = {[booking |-> local["A"].booking, seat |-> 1, fare |-> get_fare(1)]}
    /\ RowsOf(seat_bookings, local["B"].booking)
          = {[booking |-> local["B"].booking, seat |-> 2, fare |-> get_fare(2)]}
    /\ \A s \in Seats : ~is_available[s]


\* the request a is about to set seat s of booking b back to available
Releasing(a, b, s) ==
    IF pc[a] = "cancel_seat" /\ local[a].i \in 1..Len(local[a].seats)
    THEN local[a].booking = b /\ local[a].seats[local[a].i] = s
    ELSE FALSE

\* the commit that made booking b has written the SeatBooking of seat s and
\* has seat.is_available = False; seat.save() for it as its next statement
PendingSale(b, s) ==
    \E p \in Clients :
        /\ pc[p] = "commit_save"
        /\ local[p].booking = b
        /\ local[p].seats[local[p].i] = s

\* C30: a cancelled booking keeps its status and total_amount under every
\* step, and when cancel_booking releases a seat of a booking the release
\* stands: the booking is cancelled, the seat is available, and no commit is
\* left that will sell the seat again for the cancelled booking, so that the
\* seat's next sale can only come from a new hold and commit.
CancellationReversible ==
    [][/\ \A b \in 1..Len(bookings) :
             Cancelled(b) => bookings'[b] = bookings[b]
       /\ \A a \in Staff, b \in 1..Len(bookings), s \in Seats :
             (/\ Releasing(a, b, s)
              /\ pc'[a] # pc[a] \/ local'[a] # local[a])
                => /\ bookings'[b].status = "cancelled"
                   /\ is_available'[s]
                   /\ ~PendingSale(b, s)]_vars


\* the positions inside api_lock_seat, api_unlock_seat and api_create_booking
ClientPcs == {"lock_get", "lock_set", "unlock_delete"} \cup CommitPcs

\* the next statement of session p's call, when it raises nothing
ClientStep(p) ==
    \/ LockSeatGet(p)
    \/ LockSeatSet(p)
    \/ UnlockSeatDelete(p)
    \/ CreateBookingCheckLock(p)
    \/ CreateBookingCount(p)
    \/ CreateBookingValuesList(p)
    \/ CreateBookingEvaluate(p)
    \/ CreateBookingInsert(p)
    \/ CreateBookingSeatBooking(p)
    \/ CreateBookingSaveSeat(p)
    \/ CreateBookingDeleteLock(p)
    \/ CreateBookingPayment(p)

\* an upper bound on the statements a call at position at with locals l
\* still has to run
StepsLeft(at, l) ==
    CASE at = "lock_get"       -> 2
      [] at = "lock_set"       -> 1
      [] at = "unlock_delete"  -> 1
      [] at = "commit_check"   -> (Len(l.req) - l.i) + 3 * Len(l.req) + 6
      [] at = "commit_count"   -> 3 * Len(l.req) + 5
      [] at = "commit_values"  -> 1
      [] at = "commit_eval"    -> 3 * Len(l.req) + 4
      [] at = "commit_booking" -> 3 * Len(l.seats) + 3
      [] at = "commit_sb"      -> 3 * (Len(l.seats) - l.i) + 4
      [] at = "commit_save"    -> 3 * (Len(l.seats) - l.i) + 3
      [] at = "commit_unlock"  -> 3 * (Len(l.seats) - l.i) + 2
      [] at = "commit_payment" -> 1
      [] OTHER                 -> 0

\* C31: a hold, release or commit call never waits: at every position of
\* the call its next statement can run whatever the other sessions hold or
\* do, every step of the call lowers a bound on its remaining steps that
\* starts at no more than 4 * MaxReq + 6, the call ends with a named answer,
\* and a hold that reads another session's live lock returns HeldByOther in
\* that same step.
NonBlocking ==
    [][\A p \in Clients :
          pc[p] \in ClientPcs
             => /\ ENABLED ClientStep(p)
                /\ StepsLeft(pc[p], local[p]) \in 1..(4 * MaxReq + 6)
                /\ (pc'[p] # pc[p] \/ local'[p] # local[p])
                      => /\ StepsLeft(pc'[p], local'[p])
                               < StepsLeft(pc[p], local[p])
                         /\ pc'[p] = "done" => response'[p].kind # "none"
                /\ (/\ pc[p] = "lock_get"
                    /\ pc'[p] # pc[p]
                    /\ \E o \in Clients \ {p} : LiveLock(local[p].seat, o))
                      => /\ pc'[p] = "done"
                         /\ response'[p].kind = "HeldByOther"
                         /\ cache' = cache]_vars

\* a hold has returned HeldByOther while the other session's lock on the
\* seat is still live
NonBlockingWitness ==
    \E p \in Clients, o \in Clients, s \in Seats :
        /\ o # p
        /\ pc[p] = "done"
        /\ response[p].kind = "HeldByOther"
        /\ response[p].seats = <<s>>
        /\ LiveLock(s, o)


\* the statuses in which a booking still counts as holding its seats
ActiveStatuses == {"pending", "paid", "confirmed"}

\* C32: the statement by which cancel_trip cancels the trip's bookings
\* leaves no booking of the trip pending, paid or confirmed; the request then
\* sets the trip's status to cancelled; a cancel_trip on a completed or
\* cancelled trip changes no row.
CancelTripCancelsAll ==
    [][\A a \in Staff :
          /\ (pc[a] = "trip_update" /\ pc'[a] = "trip_save")
                => \A b \in 1..Len(bookings') :
                      bookings'[b].trip = TripId
                         => bookings'[b].status \notin ActiveStatuses
          /\ (pc[a] = "trip_save" /\ pc'[a] = "done")
                => trip_status' = "cancelled"
          /\ (pc[a] \in {"idle", "done"} /\ pc'[a] = "done"
              /\ response'[a].kind = "CannotCancelTrip")
                => UNCHANGED durable]_vars


\* C33: the seat of every SeatBooking belongs to the trip of the
\* SeatBooking's Booking.
SeatBookingSameTrip ==
    \A sb \in seat_bookings :
        SeatTrip[sb.seat] = bookings[sb.booking].trip


\* C34: between two expiries of the client IP's counter no more than
\* RATE_LIMIT_REQUESTS requests are admitted.
RateLimitBound == rate_limit.admitted <= RATE_LIMIT_REQUESTS

\* C35: a request that is_rate_limited rejects leaves the counter and its
\* expiry as they are; every admitted request sets the expiry to
\* RATE_LIMIT_WINDOW after its own time; and a request that arrives when the
\* expiry has been reached is not rejected, whatever the count was.
RateLimitRecovery ==
    [][\A p \in Procs :
          /\ (pc[p] \in {"idle", "done"} /\ nreq'[p] # nreq[p]
              /\ response'[p].kind = "RateLimited")
                => rate_limit' = rate_limit
          /\ (pc[p] = "rate_set" /\ pc'[p] = "done")
                => /\ response'[p].kind = "Admitted"
                   /\ rate_limit'.expires = now + RATE_LIMIT_WINDOW
          /\ (pc[p] \in {"idle", "done"} /\ nreq'[p] # nreq[p]
              /\ now >= rate_limit.expires)
                => pc'[p] = "rate_set"]_vars

\* the limit was reached and a request was rejected; after the window a
\* request has been admitted and the count has started again at 1
RateLimitRecoveryWitness ==
    \E p \in Procs, q \in Procs :
        /\ p # q
        /\ pc[p] = "done" /\ response[p].kind = "RateLimited"
        /\ pc[q] = "done" /\ response[q].kind = "Admitted"
        /\ rate_limit.value = 1
        /\ rate_limit.admitted = 1
        /\ rate_limit.expires = now + RATE_LIMIT_WINDOW
        /\ now >= RATE_LIMIT_WINDOW

====
